---------------------------- MODULE Spec2Model ----------------------------
(***************************************************************************)
(* Model of the AHTxx driver (src/src/AHTxx.cpp): one AHTxx object driven  *)
(* by a single caller over the Wire transport.                             *)
(*                                                                         *)
(* State: the object's fields _sensorType, _status and _rawData[7], plus   *)
(* the record of the last public call (its name, its return value and the  *)
(* ordered list of Wire/delay calls it made).  Every public method is one  *)
(* action: the driver is synchronous and blocking, so a call runs to its   *)
(* return before the next one starts.  What the transport answers          *)
(* (endTransmission codes, available byte counts, the bytes read) is       *)
(* chosen with \E inside the action.  lastRefresh remembers, across the     *)
(* calls that follow, the bytes that the most recent refresh took from its *)
(* bulk read.                                                              *)
(*                                                                         *)
(* Floats: readHumidity/readTemperature return exact multiples of 2^-20,   *)
(* so a returned float f is held as the integer f * 0x100000 (FloatScale). *)
(* The rounding of the last float multiplication is not modelled.          *)
(***************************************************************************)
EXTENDS Integers, Sequences, FiniteSets, TLC

VARIABLES _sensorType, _status, _rawData, call, ret, trace, lastRefresh

vars == <<_sensorType, _status, _rawData, call, ret, trace, lastRefresh>>

---------------------------------------------------------------------------
(* Bounds of the model *)

\* number of distinct 5-byte measurement payloads the sensor may deliver
NumPayloads == 2
\* number of distinct contents the never-initialised _rawData[] may hold
NumGarbage == 2
\* number of 20-bit raw values tried for each field, besides 0 and 0xFFFFF
NumSamples == 4

---------------------------------------------------------------------------
(* Constants of the driver *)

AHT1x_SENSOR == "AHT1x_SENSOR"
AHT2x_SENSOR == "AHT2x_SENSOR"
SensorTypes == {AHT1x_SENSOR, AHT2x_SENSOR}

AHTXX_NO_ERROR == 0
AHTXX_BUSY_ERROR == 1
AHTXX_ACK_ERROR == 2
AHTXX_DATA_ERROR == 3
AHTXX_CRC8_ERROR == 4

\* returned by the register helpers and by the accessors on failure
AHTXX_ERROR == 255
AHTXX_STATUS_CTRL_BUSY == 128
AHTXX_STATUS_CTRL_CAL_ON == 8

AHTXX_FORCE_READ_DATA == TRUE
AHTXX_USE_READ_DATA == FALSE

\* (float)x / 0x100000: the unit in which returned floats are held
FloatScale == 1048576

\* CRC-8 initial value and polynomial
CrcInit == 255
CrcPoly == 49

---------------------------------------------------------------------------
(* 8-bit and 32-bit unsigned arithmetic *)

RECURSIVE BitAnd(_, _)
BitAnd(a, b) ==
  IF a = 0 \/ b = 0 THEN 0
  ELSE (a % 2) * (b % 2) + 2 * BitAnd(a \div 2, b \div 2)

RECURSIVE BitOr(_, _)
BitOr(a, b) ==
  IF a = 0 THEN b
  ELSE IF b = 0 THEN a
  ELSE (IF a % 2 = 1 \/ b % 2 = 1 THEN 1 ELSE 0) + 2 * BitOr(a \div 2, b \div 2)

RECURSIVE BitXor(_, _)
BitXor(a, b) ==
  IF a = 0 THEN b
  ELSE IF b = 0 THEN a
  ELSE (((a % 2) + (b % 2)) % 2) + 2 * BitXor(a \div 2, b \div 2)

\* x << n in a uint8_t
Shl8(x, n) == (x * 2^n) % 256
\* x << n in a uint32_t: the top n of the 32 bits are shifted out
Shl32(x, n) == (x % 2^(32 - n)) * 2^n
Shr(x, n) == x \div 2^n

---------------------------------------------------------------------------
(* The transport: what the Wire calls may answer *)

\* Wire.endTransmission(): 0 success, 1 data too long, 2 NACK on address,
\* 3 NACK on data, 4 other error
TxResults == 0 .. 4

\* the codes tried for every transaction but the measurement trigger, which
\* is tried with all of TxResults: success and NACK on address
TxSample == {0, 2}

\* status bytes the sensor may answer to a status-register read: 0x18 idle
\* and calibrated, 0x98 busy and calibrated, 0x10 idle and not calibrated,
\* 0xFF all ones
StatusBytes == {24, 152, 16, 255}

\* status bytes the sensor may answer after a measurement command
\* (line 416: "under normal conditions status is 0x18 & 0x80 if the sensor
\* is busy"): idle or busy, calibrated
MeasureStatusBytes == {24, 152}

\* the i-th measurement payload {RH, RH, RH+T, T, T}
Payload(i) == [j \in 1 .. 5 |-> (i * 89 + j * 53 + i * j * 7) % 256]
Payloads == {Payload(i) : i \in 1 .. NumPayloads}

\* the i-th content of the _rawData[7] the constructor leaves uninitialised:
\* all zero (an object of static storage) for i = 0, arbitrary bytes otherwise
Garbage(i) == [j \in 0 .. 6 |-> (i * (101 + j * 29)) % 256]

\* one call made by the driver on Wire or delay()
Delay(name) == [ev |-> "delay", ms |-> name]
Write(bytes, rc) == [ev |-> "write", bytes |-> bytes, rc |-> rc]
Request(n, avail, data) == [ev |-> "requestFrom", n |-> n, avail |-> avail, data |-> data]
BusOpen(name) == [ev |-> name]

---------------------------------------------------------------------------
(* The private methods.  Each takes the object's mutable part             *)
(* s = [status, rawData, trace] and the transport's answers, and gives    *)
(* the object after the method (and the returned value where there is one) *)

Log(s, e) == [s EXCEPT !.trace = Append(@, e)]

\* lines 489-492: decide the busy bit from the buffered first byte
BusyFromBuffer(s) ==
  IF BitAnd(s.rawData[0], AHTXX_STATUS_CTRL_BUSY) = AHTXX_STATUS_CTRL_BUSY
  THEN [s |-> [s EXCEPT !.status = AHTXX_BUSY_ERROR], ret |-> AHTXX_BUSY_ERROR]
  ELSE [s |-> [s EXCEPT !.status = AHTXX_NO_ERROR], ret |-> AHTXX_NO_ERROR]

\* avail, byte: what Wire.available() and Wire.read() answer
_getBusy(s, readAHT, avail, byte) ==
  IF readAHT = AHTXX_FORCE_READ_DATA
  THEN LET s1 == Log(Log(s, Delay("AHTXX_CMD_DELAY")),
                     Request(1, avail, IF avail >= 1 THEN <<byte>> ELSE <<>>))
       IN IF avail # 1
          THEN [s |-> s1, ret |-> AHTXX_DATA_ERROR]
          ELSE BusyFromBuffer([s1 EXCEPT !.rawData[0] = byte])
  ELSE BusyFromBuffer(s)

\* one pass of the inner loop of _checkCRC8 (lines 520-521), for every value
\* of the crc register
CrcShift ==
  [crc \in 0 .. 255 |->
     IF BitAnd(crc, 128) # 0 THEN BitXor(Shl8(crc, 1), CrcPoly) ELSE Shl8(crc, 1)]

\* the inner loop of _checkCRC8 (lines 518-522): reg[bitIndex] is the crc
\* register when the loop counter, which runs from 8 down to 0, is bitIndex
CrcBits ==
  [crc \in 0 .. 255 |->
     LET reg[bitIndex \in 0 .. 8] ==
           IF bitIndex = 8 THEN crc ELSE CrcShift[reg[bitIndex + 1]]
     IN reg[0]]

\* CrcBytes with the outer loop of line 514 stopping after five bytes
CrcBytes_FiveBytes(rawData) ==
  LET reg[byteIndex \in 0 .. 5] ==
        IF byteIndex = 0 THEN CrcInit
        ELSE CrcBits[BitXor(reg[byteIndex - 1], rawData[byteIndex - 1])]
  IN reg[5]

\* the outer loop of _checkCRC8 (lines 512-523): reg[byteIndex] is the crc
\* register when the loop counter is byteIndex
CrcBytes(rawData) ==
  LET reg[byteIndex \in 0 .. 6] ==
        IF byteIndex = 0 THEN CrcInit
        ELSE CrcBits[BitXor(reg[byteIndex - 1], rawData[byteIndex - 1])]
  IN reg[6]

_checkCRC8(rawData, sensorType) ==
  IF sensorType = AHT2x_SENSOR
  THEN CrcBytes(rawData) = rawData[6]
  ELSE TRUE

\* lines 311-317: the measurement command; rc: what endTransmission answers
SendMeasurementCommand(s, rc) ==
  Log(s, Write(<<"AHTXX_START_MEASUREMENT_REG",
                 "AHTXX_START_MEASUREMENT_CTRL",
                 "AHTXX_START_MEASUREMENT_CTRL_NOP">>, rc))

\* CheckBusy with the delay of line 327 taken whatever the busy bit says
CheckBusy_AlwaysWait(s, avail, byte) ==
  LET b == _getBusy(s, AHTXX_FORCE_READ_DATA, avail, byte)
      s1 == [b.s EXCEPT !.status = b.ret]
  IN IF s1.status = AHTXX_BUSY_ERROR \/ s1.status = AHTXX_NO_ERROR
     THEN Log(s1, Delay("AHTXX_MEASUREMENT_DELAY - AHTXX_CMD_DELAY"))
     ELSE s1

\* lines 325-327: read the status byte, check the busy bit and wait for the
\* measurement when it is set
CheckBusy(s, avail, byte) ==
  LET b == _getBusy(s, AHTXX_FORCE_READ_DATA, avail, byte)
      s1 == [b.s EXCEPT !.status = b.ret]
  IN IF s1.status = AHTXX_BUSY_ERROR
     THEN Log(s1, Delay("AHTXX_MEASUREMENT_DELAY - AHTXX_CMD_DELAY"))
     ELSE s1

\* DataSize with the trailer always asked for
DataSize_AlwaysSeven(sensorType) == IF sensorType = AHT1x_SENSOR THEN 7 ELSE 7

\* lines 331-334
DataSize(sensorType) == IF sensorType = AHT1x_SENSOR THEN 6 ELSE 7

\* CopyFrame with the loop of line 350 stopping one byte early
CopyFrame_OneShort(rawData, frame, dataSize) ==
  [i \in 0 .. 6 |-> IF i < dataSize - 1 THEN frame[i + 1] ELSE rawData[i]]

\* lines 350-353: copy the dataSize bytes read into _rawData[0 .. dataSize-1]
CopyFrame(rawData, frame, dataSize) ==
  [i \in 0 .. 6 |-> IF i < dataSize THEN frame[i + 1] ELSE rawData[i]]

\* ReadData with the copy loop ahead of the count check: the bytes of a short
\* read reach the buffer
ReadData_CopyBeforeCheck(s, sensorType, avail, frame) ==
  LET dataSize == DataSize(sensorType)
      s1 == Log(s, Request(dataSize, avail, SubSeq(frame, 1, avail)))
      s2 == [s1 EXCEPT !.rawData = CopyFrame(@, frame, avail)]
  IN IF avail # dataSize
     THEN [s |-> [s2 EXCEPT !.status = AHTXX_DATA_ERROR], done |-> TRUE]
     ELSE [s |-> s2, done |-> FALSE]

\* ReadData wiping the buffer when the bulk read comes back short
ReadData_ClearOnShort(s, sensorType, avail, frame) ==
  LET dataSize == DataSize(sensorType)
      s1 == Log(s, Request(dataSize, avail, SubSeq(frame, 1, avail)))
  IN IF avail # dataSize
     THEN [s |-> [s1 EXCEPT !.status = AHTXX_DATA_ERROR,
                            !.rawData = [i \in 0 .. 6 |-> 0]],
           done |-> TRUE]
     ELSE [s |-> [s1 EXCEPT !.rawData = CopyFrame(@, frame, dataSize)], done |-> FALSE]

\* lines 331-353: request dataSize bytes and copy them when all of them are
\* there; avail, frame: what Wire.available() and the Wire.read() calls answer
ReadData(s, sensorType, avail, frame) ==
  LET dataSize == DataSize(sensorType)
      s1 == Log(s, Request(dataSize, avail, SubSeq(frame, 1, avail)))
  IN IF avail # dataSize
     THEN [s |-> [s1 EXCEPT !.status = AHTXX_DATA_ERROR], done |-> TRUE]
     ELSE [s |-> [s1 EXCEPT !.rawData = CopyFrame(@, frame, dataSize)], done |-> FALSE]

\* CheckBusyAndCRC without line 361: the trailer is never compared
CheckBusyAndCRC_NoCRC(s, sensorType) ==
  LET b == _getBusy(s, AHTXX_USE_READ_DATA, 0, 0)
  IN [b.s EXCEPT !.status = b.ret]

\* CheckBusyAndCRC without the busy test of lines 356-358
CheckBusyAndCRC_NoBusyTest(s, sensorType) ==
  IF sensorType = AHT2x_SENSOR /\ _checkCRC8(s.rawData, sensorType) # TRUE
  THEN [s EXCEPT !.status = AHTXX_CRC8_ERROR]
  ELSE [s EXCEPT !.status = AHTXX_NO_ERROR]

\* lines 356-361: the busy bit of the buffered frame, then the CRC
CheckBusyAndCRC(s, sensorType) ==
  LET b == _getBusy(s, AHTXX_USE_READ_DATA, 0, 0)
      s1 == [b.s EXCEPT !.status = b.ret]
  IN IF s1.status # AHTXX_NO_ERROR
     THEN s1
     ELSE IF sensorType = AHT2x_SENSOR /\ _checkCRC8(s1.rawData, sensorType) # TRUE
     THEN [s1 EXCEPT !.status = AHTXX_CRC8_ERROR]
     ELSE s1

\* _readMeasurement without the return of line 321: the refresh goes on
\* after a trigger that was not acknowledged
_readMeasurement_NoReturn(s, sensorType, in) ==
  LET s0 == SendMeasurementCommand(s, in.rc)
      s1 == CheckBusy(s0, in.avail1, in.byte0)
      r2 == ReadData(s1, sensorType, in.availN, in.frame)
  IN IF s1.status # AHTXX_BUSY_ERROR /\ s1.status # AHTXX_NO_ERROR
     THEN s1
     ELSE IF r2.done
     THEN r2.s
     ELSE CheckBusyAndCRC(r2.s, sensorType)

\* _readMeasurement without the return of line 328: the bulk read follows a
\* status read that delivered nothing
_readMeasurement_NoReturnOnDataError(s, sensorType, in) ==
  LET s0 == SendMeasurementCommand(s, in.rc)
      s1 == CheckBusy(s0, in.avail1, in.byte0)
      r2 == ReadData(s1, sensorType, in.availN, in.frame)
  IN IF in.rc # 0
     THEN [s0 EXCEPT !.status = AHTXX_ACK_ERROR]
     ELSE IF r2.done
     THEN r2.s
     ELSE CheckBusyAndCRC(r2.s, sensorType)

\* in: the transport's answers [rc, avail1, byte0, availN, frame]
_readMeasurement(s, sensorType, in) ==
  LET s0 == SendMeasurementCommand(s, in.rc)
      s1 == CheckBusy(s0, in.avail1, in.byte0)
      r2 == ReadData(s1, sensorType, in.availN, in.frame)
  IN IF in.rc # 0
     THEN [s0 EXCEPT !.status = AHTXX_ACK_ERROR]
     ELSE IF s1.status # AHTXX_BUSY_ERROR /\ s1.status # AHTXX_NO_ERROR
     THEN s1
     ELSE IF r2.done
     THEN r2.s
     ELSE CheckBusyAndCRC(r2.s, sensorType)

\* _setInitializationRegister recording a write that is not acknowledged in
\* _status
_setInitializationRegister_SetsStatus(s, sensorType, value, rc) ==
  LET s1 == Log(s, Delay("AHTXX_CMD_DELAY"))
      reg == IF sensorType = AHT1x_SENSOR THEN "AHT1X_INIT_REG" ELSE "AHT2X_INIT_REG"
      s2 == Log(s1, Write(<<reg, value, "AHTXX_INIT_CTRL_NOP">>, rc))
  IN [s |-> [s2 EXCEPT !.status = IF rc = 0 THEN AHTXX_NO_ERROR ELSE AHTXX_ACK_ERROR],
      ret |-> (rc = 0)]

\* _setInitializationRegister returning true whatever endTransmission answers
_setInitializationRegister_AlwaysTrue(s, sensorType, value, rc) ==
  LET s1 == Log(s, Delay("AHTXX_CMD_DELAY"))
      reg == IF sensorType = AHT1x_SENSOR THEN "AHT1X_INIT_REG" ELSE "AHT2X_INIT_REG"
      s2 == Log(s1, Write(<<reg, value, "AHTXX_INIT_CTRL_NOP">>, rc))
  IN [s |-> s2, ret |-> TRUE]

\* value: the name of the control byte; rc: what endTransmission answers
_setInitializationRegister(s, sensorType, value, rc) ==
  LET s1 == Log(s, Delay("AHTXX_CMD_DELAY"))
      reg == IF sensorType = AHT1x_SENSOR THEN "AHT1X_INIT_REG" ELSE "AHT2X_INIT_REG"
      s2 == Log(s1, Write(<<reg, value, "AHTXX_INIT_CTRL_NOP">>, rc))
  IN [s |-> s2, ret |-> (rc = 0)]

\* rc: what endTransmission answers; avail, byte: what the 1-byte read answers
_readStatusRegister(s, rc, avail, byte) ==
  LET s1 == Log(Log(s, Delay("AHTXX_CMD_DELAY")), Write(<<"AHTXX_STATUS_REG">>, rc))
      s2 == Log(s1, Request(1, avail, IF avail >= 1 THEN <<byte>> ELSE <<>>))
  IN IF rc # 0 THEN [s |-> s1, ret |-> AHTXX_ERROR]
     ELSE IF avail = 1 THEN [s |-> s2, ret |-> byte]
     ELSE [s |-> s2, ret |-> AHTXX_ERROR]

\* _getCalibration without the test for AHTXX_ERROR of line 456
_getCalibration_NoErrorTest(s, rc, avail, byte) ==
  LET r == _readStatusRegister(s, rc, avail, byte)
  IN [s |-> r.s, ret |-> BitAnd(r.ret, AHTXX_STATUS_CTRL_CAL_ON)]

_getCalibration(s, rc, avail, byte) ==
  LET r == _readStatusRegister(s, rc, avail, byte)
  IN IF r.ret # AHTXX_ERROR
     THEN [s |-> r.s, ret |-> BitAnd(r.ret, AHTXX_STATUS_CTRL_CAL_ON)]
     ELSE [s |-> r.s, ret |-> AHTXX_ERROR]

\* ModeAndCalibration with both operands evaluated and the result taken from
\* the calibration check alone
ModeAndCalibration_CalibrationOnly(s, sensorType, in) ==
  LET m == _setInitializationRegister(s, sensorType,
             "AHTXX_INIT_CTRL_CAL_ON | AHT1X_INIT_CTRL_NORMAL_MODE", in.rcMode)
      c == _getCalibration(m.s, in.rcStatus, in.avail1, in.byte0)
  IN [s |-> c.s, ret |-> (c.ret = AHTXX_STATUS_CTRL_CAL_ON)]

\* lines 100 and 249: (setNormalMode() == true) && (_getCalibration() == CAL_ON),
\* the right operand evaluated only when the left one is true
ModeAndCalibration(s, sensorType, in) ==
  LET m == _setInitializationRegister(s, sensorType,
             "AHTXX_INIT_CTRL_CAL_ON | AHT1X_INIT_CTRL_NORMAL_MODE", in.rcMode)
      c == _getCalibration(m.s, in.rcStatus, in.avail1, in.byte0)
  IN IF m.ret = TRUE
     THEN [s |-> c.s, ret |-> (c.ret = AHTXX_STATUS_CTRL_CAL_ON)]
     ELSE [s |-> m.s, ret |-> FALSE]

\* HumidityOf without the >> 4 of line 137
HumidityOf_NoShift(rawData) ==
  LET h1 == rawData[1]
      h2 == BitOr(Shl32(h1, 8), rawData[2])
      h3 == BitOr(Shl32(h2, 4), rawData[3])
  IN h3 * 100

\* lines 133-139: the 20-bit raw humidity, returned as a float
HumidityOf(rawData) ==
  LET h1 == rawData[1]
      h2 == BitOr(Shl32(h1, 8), rawData[2])
      h3 == BitOr(Shl32(h2, 4), Shr(rawData[3], 4))
  IN h3 * 100

\* lines 167-173: the 20-bit raw temperature, returned as a float
TemperatureOf(rawData) ==
  LET t1 == BitAnd(rawData[3], 15)
      t2 == BitOr(Shl32(t1, 8), rawData[4])
      t3 == BitOr(Shl32(t2, 8), rawData[5])
  IN t3 * 200 - 50 * FloatScale

\* the float AHTXX_ERROR returned by the accessors
ErrorFloat == AHTXX_ERROR * FloatScale

\* HumidityResult with the status test letting AHTXX_BUSY_ERROR through
HumidityResult_BusyTrusted(status, rawData) ==
  IF status # AHTXX_NO_ERROR /\ status # AHTXX_BUSY_ERROR
  THEN ErrorFloat
  ELSE HumidityOf(rawData)

\* lines 131-139, after the optional refresh
HumidityResult(status, rawData) ==
  IF status # AHTXX_NO_ERROR THEN ErrorFloat ELSE HumidityOf(rawData)

\* lines 165-173, after the optional refresh
TemperatureResult(status, rawData) ==
  IF status # AHTXX_NO_ERROR THEN ErrorFloat ELSE TemperatureOf(rawData)

---------------------------------------------------------------------------
(* The object and the inputs of a call *)

Self == [status |-> _status, rawData |-> _rawData, trace |-> <<>>]

\* the frames the sensor puts on the bus for a 6-byte bulk read: the idle
\* status byte and a payload, or the busy status byte and the first payload
Frames6 ==
  {<<24>> \o p : p \in Payloads} \cup {<<152>> \o Payload(1)}

\* the frames for a 7-byte bulk read: a trailer follows, the CRC-8 of the six
\* bytes or 0x00
Frames7 ==
  LET crc(f) == CrcBytes([i \in 0 .. 5 |-> f[i + 1]])
  IN UNION {{f \o <<crc(f)>>, f \o <<0>>} : f \in Frames6}

Frames(sensorType) == IF sensorType = AHT1x_SENSOR THEN Frames6 ELSE Frames7

\* byte counts a bulk read of n bytes may make available other than n
ShortCounts(n) == {0, n - 1}

\* what the transport may answer during one refresh, [rc, avail1, byte0, availN,
\* frame]: the trigger is not acknowledged; or the 1-byte read comes back
\* empty; or the bulk read comes back short (the bytes of a short read are
\* never read: they are the head of the first payload's frame); or all is
\* delivered.  Answers the driver never asks for are left at 0 and <<>>.
NoAnswer == [rc |-> 0, avail1 |-> 0, byte0 |-> 0, availN |-> 0, frame |-> <<>>]

MeasurementInputs(sensorType) ==
  LET n == IF sensorType = AHT1x_SENSOR THEN 6 ELSE 7
  IN {[NoAnswer EXCEPT !.rc = rc] : rc \in TxResults}
     \cup {[NoAnswer EXCEPT !.avail1 = 1, !.byte0 = b, !.availN = k,
                            !.frame = <<24>> \o Payload(1)] :
             b \in MeasureStatusBytes, k \in ShortCounts(n)}
     \cup {[NoAnswer EXCEPT !.avail1 = 1, !.byte0 = b, !.availN = n, !.frame = f] :
             b \in MeasureStatusBytes, f \in Frames(sensorType)}

\* what the transport may answer during a mode-set and calibration check,
\* [rcMode, rcStatus, avail1, byte0], laid out like MeasurementInputs
NoCalibrationAnswer == [rcMode |-> 0, rcStatus |-> 0, avail1 |-> 0, byte0 |-> 0]

CalibrationInputs ==
  {[NoCalibrationAnswer EXCEPT !.rcMode = rc] : rc \in TxSample}
  \cup {[NoCalibrationAnswer EXCEPT !.rcStatus = rc] : rc \in TxSample}
  \cup {[NoCalibrationAnswer EXCEPT !.avail1 = 1, !.byte0 = b] : b \in StatusBytes}

\* the bytes the driver took with Wire.read() from the bulk read among the
\* calls tr of a refresh: <<>> when the refresh ended before the copy loop
BulkData(tr) ==
  LET reads == SelectSeq(tr, LAMBDA e : e.ev = "requestFrom")
  IN IF Len(reads) = 2 /\ reads[2].avail = reads[2].n THEN reads[2].data ELSE <<>>

NoRefresh == [done |-> FALSE, frame |-> <<>>]

Commit(s, name, value) ==
  /\ _status' = s.status
  /\ _rawData' = s.rawData
  /\ trace' = s.trace
  /\ call' = name
  /\ ret' = value
  /\ lastRefresh' = IF name.force = AHTXX_FORCE_READ_DATA
                    THEN [done |-> TRUE, frame |-> BulkData(s.trace)]
                    ELSE lastRefresh

---------------------------------------------------------------------------
(* The public methods *)

Init ==
  /\ _sensorType \in SensorTypes
  /\ _status = AHTXX_NO_ERROR
  /\ _rawData \in {Garbage(i) : i \in 0 .. NumGarbage - 1}
  /\ call = [op |-> "AHTxx", force |-> FALSE]
  /\ ret = "void"
  /\ trace = <<>>
  /\ lastRefresh = NoRefresh

begin ==
  \E in \in CalibrationInputs :
    LET s0 == Log(Log(Log(Self, BusOpen("Wire.begin")), BusOpen("Wire.setClock")),
                  Delay("AHT2X_POWER_ON_DELAY"))
        r == ModeAndCalibration(s0, _sensorType, in)
    IN /\ Commit(r.s, [op |-> "begin", force |-> FALSE], r.ret)
       /\ UNCHANGED _sensorType

ReadHumidity(readI2C) ==
  \E in \in IF readI2C = AHTXX_FORCE_READ_DATA
            THEN MeasurementInputs(_sensorType)
            ELSE {NoAnswer}
  : LET s == IF readI2C = AHTXX_FORCE_READ_DATA
             THEN _readMeasurement(Self, _sensorType, in)
             ELSE Self
    IN /\ Commit(s, [op |-> "readHumidity", force |-> readI2C],
                 HumidityResult(s.status, s.rawData))
       /\ UNCHANGED _sensorType

readHumidity == \E readI2C \in BOOLEAN : ReadHumidity(readI2C)

ReadTemperature(readAHT) ==
  \E in \in IF readAHT = AHTXX_FORCE_READ_DATA
            THEN MeasurementInputs(_sensorType)
            ELSE {NoAnswer}
  : LET s == IF readAHT = AHTXX_FORCE_READ_DATA
             THEN _readMeasurement(Self, _sensorType, in)
             ELSE Self
    IN /\ Commit(s, [op |-> "readTemperature", force |-> readAHT],
                 TemperatureResult(s.status, s.rawData))
       /\ UNCHANGED _sensorType

readTemperature == \E readAHT \in BOOLEAN : ReadTemperature(readAHT)

setNormalMode ==
  \E rc \in TxSample :
    LET r == _setInitializationRegister(Self, _sensorType,
               "AHTXX_INIT_CTRL_CAL_ON | AHT1X_INIT_CTRL_NORMAL_MODE", rc)
    IN /\ Commit(r.s, [op |-> "setNormalMode", force |-> FALSE], r.ret)
       /\ UNCHANGED _sensorType

setCycleMode ==
  \E rc \in TxSample :
    LET r == _setInitializationRegister(Self, _sensorType,
               "AHTXX_INIT_CTRL_CAL_ON | AHT1X_INIT_CTRL_CYCLE_MODE", rc)
    IN /\ Commit(r.s, [op |-> "setCycleMode", force |-> FALSE], r.ret)
       /\ UNCHANGED _sensorType

setComandMode ==
  \E rc \in TxSample :
    LET r == _setInitializationRegister(Self, _sensorType,
               "AHTXX_INIT_CTRL_CAL_ON | AHT1X_INIT_CTRL_CMD_MODE", rc)
    IN /\ Commit(r.s, [op |-> "setComandMode", force |-> FALSE], r.ret)
       /\ UNCHANGED _sensorType

\* SoftResetResult without the return of line 245: the mode-set and the
\* calibration check follow a reset that was not acknowledged
SoftResetResult_NoReturn(s, sensorType, rcReset, in) ==
  LET s1 == Log(s, Write(<<"AHTXX_SOFT_RESET_REG">>, rcReset))
  IN ModeAndCalibration(Log(s1, Delay("AHTXX_SOFT_RESET_DELAY")), sensorType, in)

\* rcReset: what endTransmission answers for the reset opcode
SoftResetResult(s, sensorType, rcReset, in) ==
  LET s1 == Log(s, Write(<<"AHTXX_SOFT_RESET_REG">>, rcReset))
  IN IF rcReset # 0
     THEN [s |-> s1, ret |-> FALSE]
     ELSE ModeAndCalibration(Log(s1, Delay("AHTXX_SOFT_RESET_DELAY")), sensorType, in)

softReset ==
  \E rcReset \in TxSample :
  \E in \in IF rcReset = 0 THEN CalibrationInputs ELSE {NoCalibrationAnswer}
  : LET r == SoftResetResult(Self, _sensorType, rcReset, in)
    IN /\ Commit(r.s, [op |-> "softReset", force |-> FALSE], r.ret)
       /\ UNCHANGED _sensorType

\* getStatus as a read-and-clear of the status byte
getStatus_ClearsStatus ==
  /\ Commit([Self EXCEPT !.status = AHTXX_NO_ERROR],
            [op |-> "getStatus", force |-> FALSE], _status)
  /\ UNCHANGED _sensorType

getStatus ==
  /\ Commit(Self, [op |-> "getStatus", force |-> FALSE], _status)
  /\ UNCHANGED _sensorType

setType ==
  \E sensorType \in SensorTypes :
    /\ _sensorType' = sensorType
    /\ call' = [op |-> "setType", force |-> FALSE, sensorType |-> sensorType]
    /\ ret' = "void"
    /\ trace' = <<>>
    /\ UNCHANGED <<_status, _rawData, lastRefresh>>

Next ==
  \/ begin
  \/ readHumidity
  \/ readTemperature
  \/ setNormalMode
  \/ setCycleMode
  \/ setComandMode
  \/ softReset
  \/ getStatus
  \/ setType

Spec == Init /\ [][Next]_vars

---------------------------------------------------------------------------
(* Reading the record of the last call *)

\* the last call was a refresh: an accessor called with AHTXX_FORCE_READ_DATA
Refresh ==
  /\ call.op \in {"readHumidity", "readTemperature"}
  /\ call.force = AHTXX_FORCE_READ_DATA

\* the last call was an accessor called with AHTXX_USE_READ_DATA
BufferedRead ==
  /\ call.op \in {"readHumidity", "readTemperature"}
  /\ call.force = AHTXX_USE_READ_DATA

Requests(tr) == SelectSeq(tr, LAMBDA e : e.ev = "requestFrom")
Writes(tr) == SelectSeq(tr, LAMBDA e : e.ev = "write")
MeasurementWaits(tr) ==
  SelectSeq(tr, LAMBDA e : e = Delay("AHTXX_MEASUREMENT_DELAY - AHTXX_CMD_DELAY"))

\* the bytes a read request delivered, indexed from 0 like _rawData
Delivered(req) == [i \in 0 .. Len(req.data) - 1 |-> req.data[i + 1]]

BusyBit(byte) == BitAnd(byte, AHTXX_STATUS_CTRL_BUSY) = AHTXX_STATUS_CTRL_BUSY

\* the trigger of the refresh in tr was acknowledged and its 1-byte status
\* read delivered one byte, so that the bulk read was issued
BulkReadIssued(tr) ==
  /\ tr[1].rc = 0
  /\ Len(Requests(tr)) = 2
  /\ Requests(tr)[1].avail = 1

\* ... and the bulk read made a number of bytes available other than the
\* frame length of the variant
BulkReadShort(tr, sensorType) ==
  /\ BulkReadIssued(tr)
  /\ Requests(tr)[2].avail # (IF sensorType = AHT1x_SENSOR THEN 6 ELSE 7)

\* ... and the bulk read delivered the whole frame of the variant
BulkReadFull(tr, sensorType) ==
  /\ BulkReadIssued(tr)
  /\ Requests(tr)[2].avail = (IF sensorType = AHT1x_SENSOR THEN 6 ELSE 7)

---------------------------------------------------------------------------
(* C1 *)

\* C1 as stated: a refresh whose bulk read makes a byte count other than the
\* frame length (6 for AHT1x, 7 for AHT2x) available ends with status DataError
\* and with every byte _rawData[0..6] equal to its value before the refresh.
C1_AllBytesUnchanged ==
  [][(Refresh' /\ BulkReadShort(trace', _sensorType'))
       => /\ _status' = AHTXX_DATA_ERROR
          /\ _rawData' = _rawData]_vars

\* C1, amended: such a refresh ends with status DataError and with bytes
\* _rawData[1..6] equal to their values before the refresh; _rawData[0] holds
\* the byte delivered by the 1-byte status read that precedes the bulk read.
C1_TailUnchanged ==
  [][(Refresh' /\ BulkReadShort(trace', _sensorType'))
       => /\ _status' = AHTXX_DATA_ERROR
          /\ \A i \in 1 .. 6 : _rawData'[i] = _rawData[i]
          /\ _rawData'[0] = Requests(trace')[1].data[1]]_vars

\* a refresh on a never-filled buffer whose bulk read came one byte short,
\* after the idle status byte 0x18 was stored over the first byte
C1_Witness ==
  /\ Refresh
  /\ BulkReadShort(trace, _sensorType)
  /\ Requests(trace)[2].avail = Requests(trace)[2].n - 1
  /\ _status = AHTXX_DATA_ERROR
  /\ _rawData[0] = 24
  /\ \A i \in 1 .. 6 : _rawData[i] = Garbage(1)[i]

---------------------------------------------------------------------------
(* C2 *)

\* what the accessor named op decodes from the frame rawData
Decoded(op, rawData) ==
  IF op = "readHumidity" THEN HumidityOf(rawData) ELSE TemperatureOf(rawData)

\* C2: every call of readHumidity or readTemperature, forced or buffered,
\* returns the error sentinel whenever the status at the moment of decoding is
\* Busy, AckError, DataError or IntegrityError, and returns a value decoded
\* from the raw frame only if that status is Ok.
C2_DecodeOnlyWhenOk ==
  call.op \in {"readHumidity", "readTemperature"}
    => /\ _status \in {AHTXX_BUSY_ERROR, AHTXX_ACK_ERROR, AHTXX_DATA_ERROR,
                       AHTXX_CRC8_ERROR} => ret = ErrorFloat
       /\ ret # ErrorFloat => /\ _status = AHTXX_NO_ERROR
                              /\ ret = Decoded(call.op, _rawData)

\* a buffered readHumidity answered with the sentinel while the status is Busy
C2_Witness ==
  /\ call.op = "readHumidity"
  /\ call.force = AHTXX_USE_READ_DATA
  /\ _status = AHTXX_BUSY_ERROR
  /\ ret = ErrorFloat

---------------------------------------------------------------------------
(* C3 *)

\* C3: a refresh whose trigger write is answered by endTransmission with any
\* non-success code (1 .. 4) ends with status AckError, issues no read request,
\* performs no measurement wait, and leaves the whole raw frame unchanged.
C3_NackAborts ==
  [][(Refresh' /\ trace'[1].rc # 0)
       => /\ _status' = AHTXX_ACK_ERROR
          /\ Requests(trace') = <<>>
          /\ MeasurementWaits(trace') = <<>>
          /\ _rawData' = _rawData]_vars

\* a refresh whose trigger got a NACK on data while the status was Ok
C3_Witness ==
  /\ Refresh
  /\ trace[1].rc = 3
  /\ Len(trace) = 1
  /\ _status = AHTXX_ACK_ERROR

---------------------------------------------------------------------------
(* C4 *)

\* the last call was a refresh of an AHT2x whose trigger was acknowledged,
\* whose two reads delivered 1 and 7 bytes, and whose buffered first byte has
\* the busy bit clear
DeliveredIdleAHT2x ==
  /\ Refresh
  /\ _sensorType = AHT2x_SENSOR
  /\ BulkReadFull(trace, AHT2x_SENSOR)
  /\ ~BusyBit(_rawData[0])

\* C4: for the AHT2x, a refresh whose trigger is acknowledged, whose 1-byte
\* and 7-byte reads deliver the expected counts and whose buffered first byte
\* has the busy bit clear ends with status Ok if and only if the CRC-8 of the
\* delivered bytes 0..5 equals the delivered byte 6, and with status
\* IntegrityError otherwise; the accessor that ran the refresh and an accessor
\* called after it in buffered mode then return the error sentinel.
C4_CrcDecidesStatus ==
  [][/\ DeliveredIdleAHT2x'
          => LET frame == Delivered(Requests(trace')[2])
                 match == CrcBytes(frame) = frame[6]
             IN /\ match <=> _status' = AHTXX_NO_ERROR
                /\ ~match <=> _status' = AHTXX_CRC8_ERROR
                /\ ~match => ret' = ErrorFloat
     /\ (DeliveredIdleAHT2x /\ _status = AHTXX_CRC8_ERROR /\ BufferedRead')
          => ret' = ErrorFloat]_vars

\* a buffered readTemperature answered with the sentinel after an AHT2x
\* frame whose trailer did not match was buffered
C4_Witness ==
  /\ call.op = "readTemperature"
  /\ call.force = AHTXX_USE_READ_DATA
  /\ _sensorType = AHT2x_SENSOR
  /\ _status = AHTXX_CRC8_ERROR
  /\ ~BusyBit(_rawData[0])
  /\ CrcBytes(_rawData) # _rawData[6]
  /\ \E p \in Payloads : \A j \in 1 .. 5 : _rawData[j] = p[j]
  /\ ret = ErrorFloat

---------------------------------------------------------------------------
(* C5 *)

\* the last call was a refresh of an AHT1x whose trigger was acknowledged,
\* whose two reads delivered 1 and 6 bytes, the first of the 6 with the busy
\* bit clear
DeliveredIdleAHT1x ==
  /\ Refresh
  /\ _sensorType = AHT1x_SENSOR
  /\ BulkReadFull(trace, AHT1x_SENSOR)
  /\ ~BusyBit(Requests(trace)[2].data[1])

\* C5: for the AHT1x, a refresh whose trigger is acknowledged and whose reads
\* deliver 1 byte and exactly 6 bytes, the first with the busy bit clear, ends
\* with status Ok and _rawData[0..5] equal to the 6 delivered bytes in order;
\* _rawData[6] keeps whatever it held and has no influence; the accessor that
\* ran the refresh and an accessor called after it in buffered mode return
\* the values decoded from those 6 bytes.
C5_SixBytesOk ==
  [][/\ DeliveredIdleAHT1x'
          => LET frame == Delivered(Requests(trace')[2])
             IN /\ _status' = AHTXX_NO_ERROR
                /\ \A i \in 0 .. 5 : _rawData'[i] = frame[i]
                /\ _rawData'[6] = _rawData[6]
                /\ ret' = Decoded(call'.op, frame)
     /\ (DeliveredIdleAHT1x /\ BufferedRead')
          => ret' = Decoded(call'.op, Delivered(Requests(trace)[2]))]_vars

\* a buffered readTemperature that decodes the AHT1x frame a forced
\* readHumidity left in the buffer, over a seventh byte that is no CRC of it
C5_Witness ==
  /\ call.op = "readTemperature"
  /\ call.force = AHTXX_USE_READ_DATA
  /\ _sensorType = AHT1x_SENSOR
  /\ _status = AHTXX_NO_ERROR
  /\ \A j \in 1 .. 5 : _rawData[j] = Payload(2)[j]
  /\ CrcBytes(_rawData) # _rawData[6]
  /\ ret = TemperatureOf(_rawData)

---------------------------------------------------------------------------
(* C6 *)

---------------------------------------------------------------------------
(* C7 *)

ModeSetOps == {"setNormalMode", "setCycleMode", "setComandMode"}

\* some write transaction of the call recorded in tr was not acknowledged
SomeWriteFailed(tr) == \E k \in 1 .. Len(tr) : tr[k].ev = "write" /\ tr[k].rc # 0

\* the outcome of the refresh recorded in tr, read off the transport's answers
RefreshOutcome(tr, sensorType) ==
  IF tr[1].rc # 0 THEN AHTXX_ACK_ERROR
  ELSE IF Requests(tr)[1].avail # 1 THEN AHTXX_DATA_ERROR
  ELSE IF BulkReadShort(tr, sensorType) THEN AHTXX_DATA_ERROR
  ELSE LET frame == Delivered(Requests(tr)[2])
       IN IF BusyBit(frame[0]) THEN AHTXX_BUSY_ERROR
          ELSE IF sensorType = AHT2x_SENSOR /\ CrcBytes(frame) # frame[6]
          THEN AHTXX_CRC8_ERROR
          ELSE AHTXX_NO_ERROR

\* C7 as stated: the status is overwritten by every operation that touches
\* the bus; in particular after a setNormalMode, setCycleMode, setComandMode,
\* softReset or begin one of whose write transactions was not acknowledged,
\* the status is not Ok.
C7_EveryBusOpSetsStatus ==
  /\ Refresh => _status = RefreshOutcome(trace, _sensorType)
  /\ (call.op \in ModeSetOps \cup {"softReset", "begin"} /\ SomeWriteFailed(trace))
       => _status # AHTXX_NO_ERROR

\* C7, amended: the status is overwritten by a refresh only, and after a
\* refresh it is the outcome of that refresh; setNormalMode, setCycleMode,
\* setComandMode, softReset and begin leave the status as it was, whatever
\* the transport answers, and report their outcome in their return value only.
C7_OnlyRefreshSetsStatus ==
  [][/\ Refresh' => _status' = RefreshOutcome(trace', _sensorType')
     /\ call'.op \in ModeSetOps \cup {"softReset", "begin"} => _status' = _status]_vars

\* a softReset whose reset write was not acknowledged, returning false with
\* the status still Ok
C7_Witness ==
  /\ call.op = "softReset"
  /\ SomeWriteFailed(trace)
  /\ ret = FALSE
  /\ _status = AHTXX_NO_ERROR

---------------------------------------------------------------------------
(* C8 *)

\* C8 as stated: on a freshly constructed object, readHumidity and
\* readTemperature called in buffered mode return the error sentinel.
C8_FreshBufferedReadIsError ==
  [][(call.op = "AHTxx" /\ BufferedRead') => ret' = ErrorFloat]_vars

\* a buffered readHumidity, the first call on the object, answered with the
\* humidity decoded from the never-filled buffer
C8_Witness ==
  /\ call.op = "readHumidity"
  /\ call.force = AHTXX_USE_READ_DATA
  /\ _rawData = Garbage(1)
  /\ _status = AHTXX_NO_ERROR
  /\ ret = HumidityOf(Garbage(1))
  /\ ret # ErrorFloat

---------------------------------------------------------------------------
(* C9 *)

PowerOnDelay == Delay("AHT2X_POWER_ON_DELAY")

\* C9: begin returns true only if the normal-mode-set write was acknowledged
\* and the status-register read that follows succeeded with bit 0x08 set; the
\* power-on delay precedes the first bus write; when the mode-set write is not
\* acknowledged, begin returns false and the status register is neither
\* written nor read.
C9_BeginTrueOnlyIfCalibrated ==
  call.op = "begin"
    => LET w == Writes(trace)
           r == Requests(trace)
       IN /\ \E d \in 1 .. Len(trace) :
               /\ trace[d] = PowerOnDelay
               /\ \A k \in 1 .. d : trace[k].ev \notin {"write", "requestFrom"}
          /\ w[1].bytes = <<IF _sensorType = AHT1x_SENSOR THEN "AHT1X_INIT_REG"
                                                          ELSE "AHT2X_INIT_REG",
                            "AHTXX_INIT_CTRL_CAL_ON | AHT1X_INIT_CTRL_NORMAL_MODE",
                            "AHTXX_INIT_CTRL_NOP">>
          /\ ret = TRUE
               => /\ w[1].rc = 0
                  /\ Len(w) = 2 /\ w[2].bytes = <<"AHTXX_STATUS_REG">> /\ w[2].rc = 0
                  /\ Len(r) = 1 /\ r[1].avail = 1
                  /\ BitAnd(r[1].data[1], 8) = 8
          /\ w[1].rc # 0 => ret = FALSE /\ Len(w) = 1 /\ r = <<>>

\* a begin that returned true on the status byte 0x18
C9_Witness ==
  /\ call.op = "begin"
  /\ ret = TRUE
  /\ Requests(trace)[1].data = <<24>>

---------------------------------------------------------------------------
(* C10 *)

\* the calls of a mode-set and calibration check, as far as they go
ModeAndCalibrationSteps(tr, sensorType) ==
  /\ Len(tr) >= 2
  /\ tr[1] = Delay("AHTXX_CMD_DELAY")
  /\ tr[2].ev = "write"
  /\ tr[2].bytes = <<IF sensorType = AHT1x_SENSOR THEN "AHT1X_INIT_REG"
                                                  ELSE "AHT2X_INIT_REG",
                     "AHTXX_INIT_CTRL_CAL_ON | AHT1X_INIT_CTRL_NORMAL_MODE",
                     "AHTXX_INIT_CTRL_NOP">>
  /\ IF tr[2].rc # 0 THEN Len(tr) = 2
     ELSE /\ Len(tr) >= 4
          /\ tr[3] = Delay("AHTXX_CMD_DELAY")
          /\ tr[4].ev = "write"
          /\ tr[4].bytes = <<"AHTXX_STATUS_REG">>
          /\ IF tr[4].rc # 0 THEN Len(tr) = 4
             ELSE /\ Len(tr) = 5
                  /\ tr[5].ev = "requestFrom"
                  /\ tr[5].n = 1

\* C10: softReset writes the reset opcode, waits the reset delay, writes the
\* normal mode and reads the status register, in that order, and stops at the
\* first step that fails: a reset write that is not acknowledged gives false
\* with no delay and no further bus operation, a mode-set write that is not
\* acknowledged gives false without a status-register read, and true is
\* returned only if the three steps succeed with the calibration bit set.
C10_SoftResetSteps ==
  call.op = "softReset"
    => /\ trace[1].ev = "write"
       /\ trace[1].bytes = <<"AHTXX_SOFT_RESET_REG">>
       /\ IF trace[1].rc # 0
          THEN ret = FALSE /\ Len(trace) = 1
          ELSE /\ Len(trace) >= 2
               /\ trace[2] = Delay("AHTXX_SOFT_RESET_DELAY")
               /\ ModeAndCalibrationSteps(SubSeq(trace, 3, Len(trace)), _sensorType)
               /\ trace[4].rc # 0 => ret = FALSE /\ Requests(trace) = <<>>
               /\ ret = TRUE
                    => /\ trace[4].rc = 0
                       /\ Len(trace) = 7
                       /\ trace[6].rc = 0
                       /\ trace[7].avail = 1
                       /\ BitAnd(trace[7].data[1], 8) = 8

\* a softReset that ran all its steps and returned true
C10_Witness ==
  /\ call.op = "softReset"
  /\ Len(trace) = 7
  /\ ret = TRUE

---------------------------------------------------------------------------
(* C11 *)

\* the calls in tr that go on the bus, in order
BusCalls(tr) == SelectSeq(tr, LAMBDA e : e.ev \in {"write", "requestFrom"})

\* C11: every refresh returns after a bounded list of calls, whatever the
\* transport answers: one write transaction (the 3-byte trigger), then at most
\* one 1-byte read, then at most one bulk read, in that order and none of them
\* twice; a trigger that is not acknowledged ends it with AckError after the
\* write, a status read that delivers no byte ends it with DataError before
\* the bulk read, and a short bulk read ends it with DataError.
C11_LinearPipeline ==
  Refresh
    => LET bus == BusCalls(trace)
       IN /\ Len(trace) <= 5
          /\ Len(bus) \in 1 .. 3
          /\ bus[1].ev = "write" /\ Len(bus[1].bytes) = 3
          /\ Len(bus) >= 2 => bus[2].ev = "requestFrom" /\ bus[2].n = 1
          /\ Len(bus) = 3 => bus[3].ev = "requestFrom" /\ bus[3].n \in {6, 7}
          /\ bus[1].rc # 0 => Len(bus) = 1 /\ _status = AHTXX_ACK_ERROR
          /\ bus[1].rc = 0 => Len(bus) >= 2
          /\ (Len(bus) >= 2 /\ bus[2].avail # 1)
               => Len(bus) = 2 /\ _status = AHTXX_DATA_ERROR
          /\ (Len(bus) >= 2 /\ bus[2].avail = 1) => Len(bus) = 3
          /\ (Len(bus) = 3 /\ bus[3].avail # bus[3].n)
               => _status = AHTXX_DATA_ERROR /\ trace[Len(trace)] = bus[3]

\* a refresh that stopped at a status read that delivered no byte
C11_Witness ==
  /\ Refresh
  /\ Len(BusCalls(trace)) = 2
  /\ BusCalls(trace)[2].avail = 0
  /\ _status = AHTXX_DATA_ERROR

---------------------------------------------------------------------------
(* C12 *)

\* C12: getStatus and the accessors called in buffered mode make no bus call
\* and no delay and leave status, raw frame and sensor variant unchanged;
\* getStatus returns the status, and a buffered accessor returns what the
\* status and the raw frame determine, so that a buffered call repeated
\* returns the same value, as long as no refresh intervenes (no other method
\* changes status or raw frame), and a buffered readTemperature after a forced
\* readHumidity decodes the frame that refresh delivered.
C12_BufferedCallsReadOnly ==
  [][/\ (call'.op = "getStatus" \/ BufferedRead')
          => /\ trace' = <<>>
             /\ UNCHANGED <<_status, _rawData, _sensorType>>
     /\ call'.op = "getStatus" => ret' = _status
     /\ BufferedRead'
          => ret' = (IF _status # AHTXX_NO_ERROR THEN ErrorFloat
                     ELSE Decoded(call'.op, _rawData))
     /\ ~Refresh' => UNCHANGED <<_status, _rawData>>
     /\ (BufferedRead /\ BufferedRead' /\ call'.op = call.op) => ret' = ret
     /\ (Refresh /\ call.op = "readHumidity" /\ _status = AHTXX_NO_ERROR
           /\ BufferedRead' /\ call'.op = "readTemperature")
          => ret' = TemperatureOf(Delivered(Requests(trace)[2]))]_vars

\* a buffered readTemperature that made no call and decoded a buffered AHT2x
\* frame with a matching trailer
C12_Witness ==
  /\ BufferedRead
  /\ call.op = "readTemperature"
  /\ trace = <<>>
  /\ _sensorType = AHT2x_SENSOR
  /\ _status = AHTXX_NO_ERROR
  /\ \A j \in 1 .. 5 : _rawData[j] = Payload(1)[j]
  /\ CrcBytes(_rawData) = _rawData[6]
  /\ ret = TemperatureOf(_rawData)

---------------------------------------------------------------------------
(* C13 *)

InitRegister(sensorType) ==
  IF sensorType = AHT1x_SENSOR THEN "AHT1X_INIT_REG" ELSE "AHT2X_INIT_REG"

\* C13: setType(v) makes v the variant of the object, makes no bus call and
\* changes neither status nor raw frame; no other method changes the variant;
\* and every method uses the variant the object then has: a refresh requests
\* and requires exactly 6 bytes and applies no integrity check for AHT1x,
\* requests and requires exactly 7 bytes and applies the CRC check for AHT2x,
\* and a mode-set (alone or within begin and softReset) writes to the
\* initialization register of that variant.
C13_TypeInForce ==
  [][/\ call'.op = "setType"
          => /\ _sensorType' = call'.sensorType
             /\ trace' = <<>>
             /\ UNCHANGED <<_status, _rawData>>
     /\ call'.op # "setType" => _sensorType' = _sensorType
     /\ (Refresh' /\ BulkReadIssued(trace'))
          => LET bulk == Requests(trace')[2]
                 n == IF _sensorType = AHT1x_SENSOR THEN 6 ELSE 7
             IN /\ bulk.n = n
                /\ bulk.avail # n => _status' = AHTXX_DATA_ERROR
                /\ (bulk.avail = n /\ ~BusyBit(bulk.data[1]))
                     => _status' = (IF _sensorType = AHT2x_SENSOR
                                       /\ CrcBytes(Delivered(bulk)) # bulk.data[7]
                                    THEN AHTXX_CRC8_ERROR
                                    ELSE AHTXX_NO_ERROR)
     /\ call'.op \in ModeSetOps \cup {"begin", "softReset"}
          => \A k \in 1 .. Len(trace') :
               (trace'[k].ev = "write" /\ Len(trace'[k].bytes) = 3)
                 => trace'[k].bytes[1] = InitRegister(_sensorType)]_vars

\* a refresh of an object switched to AHT1x by setType: it asked for 6 bytes
\* and ended Ok over a seventh byte left by an earlier 7-byte AHT2x frame
C13_Witness ==
  /\ Refresh
  /\ _sensorType = AHT1x_SENSOR
  /\ BulkReadFull(trace, AHT1x_SENSOR)
  /\ Requests(trace)[2].n = 6
  /\ _status = AHTXX_NO_ERROR
  /\ \A j \in 1 .. 5 : _rawData[j] = Payload(2)[j]
  /\ _rawData[6] = CrcBytes([i \in 0 .. 5 |-> (<<24>> \o Payload(1))[i + 1]])

---------------------------------------------------------------------------
(* C14 *)

\* the mode bits each mode-set method sends, or-ed with the calibration bit
ModeControl(op) ==
  IF op = "setNormalMode" THEN "AHTXX_INIT_CTRL_CAL_ON | AHT1X_INIT_CTRL_NORMAL_MODE"
  ELSE IF op = "setCycleMode" THEN "AHTXX_INIT_CTRL_CAL_ON | AHT1X_INIT_CTRL_CYCLE_MODE"
  ELSE "AHTXX_INIT_CTRL_CAL_ON | AHT1X_INIT_CTRL_CMD_MODE"

\* C14: each of setNormalMode, setCycleMode and setComandMode waits the
\* command delay and then issues exactly one write transaction of the three
\* bytes {initialization register of the variant, calibration bit | mode
\* bits, NOP} and nothing else, no read request in particular; it returns
\* true if and only if endTransmission reports success, and it never changes
\* the raw frame.
C14_ModeSetOneWrite ==
  [][call'.op \in ModeSetOps
       => /\ Len(trace') = 2
          /\ trace'[1] = Delay("AHTXX_CMD_DELAY")
          /\ trace'[2].ev = "write"
          /\ trace'[2].bytes = <<InitRegister(_sensorType), ModeControl(call'.op),
                                 "AHTXX_INIT_CTRL_NOP">>
          /\ Requests(trace') = <<>>
          /\ ret' = (trace'[2].rc = 0)
          /\ _rawData' = _rawData]_vars

\* a setCycleMode on an AHT2x that was not acknowledged and returned false
C14_Witness ==
  /\ call.op = "setCycleMode"
  /\ _sensorType = AHT2x_SENSOR
  /\ trace[2].bytes[1] = "AHT2X_INIT_REG"
  /\ trace[2].rc # 0
  /\ ret = FALSE

---------------------------------------------------------------------------
(* C15 *)

\* the i-th 20-bit raw value tried
Sample20(i) == (i * 699051 + i * i * 4099) % FloatScale

Samples20 == {0, FloatScale - 1} \cup {Sample20(i) : i \in 1 .. NumSamples}

\* values tried for the bytes that carry no field
OtherBytes == {24, 255}

\* the frame {status, RH, RH, RH+T, T, T, CRC} that carries the raw humidity h
\* and the raw temperature t, with status byte b0 and seventh byte b6
EncodeFrame(h, t, b0, b6) ==
  [i \in 0 .. 6 |->
     CASE i = 0 -> b0
       [] i = 1 -> h \div 4096
       [] i = 2 -> (h \div 16) % 256
       [] i = 3 -> (h % 16) * 16 + t \div 65536
       [] i = 4 -> (t \div 256) % 256
       [] i = 5 -> t % 256
       [] i = 6 -> b6]

\* a constructed object whose buffer holds an encoded frame, decoded by the
\* accessors in buffered mode
DecodeInit ==
  /\ _sensorType \in SensorTypes
  /\ _status = AHTXX_NO_ERROR
  /\ _rawData \in {EncodeFrame(h, t, b0, b6) :
                     h \in Samples20, t \in Samples20,
                     b0 \in OtherBytes, b6 \in OtherBytes}
  /\ call = [op |-> "AHTxx", force |-> FALSE]
  /\ ret = "void"
  /\ trace = <<>>
  /\ lastRefresh = NoRefresh

DecodeNext ==
  \/ ReadHumidity(AHTXX_USE_READ_DATA)
  \/ ReadTemperature(AHTXX_USE_READ_DATA)

DecodeSpec == DecodeInit /\ [][DecodeNext]_vars

\* C15: for 20-bit h and t, with status Ok, the frame with frame[1] = h>>12,
\* frame[2] = (h>>4)&0xFF, frame[3] = ((h&0xF)<<4) | (t>>16),
\* frame[4] = (t>>8)&0xFF, frame[5] = t&0xFF decodes to the humidity
\* h/2^20*100 and the temperature t/2^20*200-50, whatever frame[0] and
\* frame[6] hold; so the humidity does not depend on t (the low nibble of
\* frame[3], frame[4..5]) and the temperature does not depend on h.
C15_DecodeRoundTrip ==
  \A h \in Samples20, t \in Samples20, b0 \in OtherBytes, b6 \in OtherBytes :
    (_rawData = EncodeFrame(h, t, b0, b6) /\ _status = AHTXX_NO_ERROR)
      => /\ call.op = "readHumidity" => ret = h * 100
         /\ call.op = "readTemperature" => ret = t * 200 - 50 * FloatScale

\* readHumidity answering 0xFFFFF/2^20*100 on a frame whose temperature is 0
C15_Witness ==
  /\ call.op = "readHumidity"
  /\ _rawData = EncodeFrame(FloatScale - 1, 0, 255, 255)
  /\ ret = (FloatScale - 1) * 100

---------------------------------------------------------------------------
(* C16 *)

\* CRC-8 with polynomial x^8 + x^5 + x^4 + 1, initial value 0xFF, no final
\* XOR, as a shift register fed one message bit at a time, most significant
\* bit first: one step of the register
RefCrcStep ==
  [reg \in 0 .. 255, bit \in 0 .. 1 |->
     LET shifted == (reg * 2) % 256
     IN IF (reg \div 128 + bit) % 2 = 1 THEN BitXor(shifted, 49) ELSE shifted]

\* the k-th bit (from 1) of the byte sequence bytes, most significant first
MessageBit(bytes, k) == (bytes[(k - 1) \div 8 + 1] \div 2^(7 - ((k - 1) % 8))) % 2

RefCrc8(bytes) ==
  LET reg[k \in 0 .. 8 * Len(bytes)] ==
        IF k = 0 THEN 255 ELSE RefCrcStep[reg[k - 1], MessageBit(bytes, k)]
  IN reg[8 * Len(bytes)]

\* the six data bytes of a frame, as a sequence
DataBytes(rawData) == [j \in 1 .. 6 |-> rawData[j - 1]]

\* the frames without a fault: a status byte, a payload and their CRC-8
CrcBaseFrames ==
  {[i \in 0 .. 6 |-> IF i = 0 THEN b0
                     ELSE IF i = 6 THEN RefCrc8(<<b0>> \o p)
                     ELSE p[i]] :
     b0 \in MeasureStatusBytes, p \in Payloads}

\* frame with bit k (0 .. 47, most significant bit of byte 0 first) of its six
\* data bytes flipped and the trailer kept
FlipBit(frame, k) ==
  [frame EXCEPT ![k \div 8] = BitXor(@, 2^(7 - (k % 8)))]

CrcFrames ==
  CrcBaseFrames \cup {FlipBit(f, k) : f \in CrcBaseFrames, k \in 0 .. 47}

\* a constructed object whose buffer holds a frame, checked by _checkCRC8
CrcFramesInit ==
  /\ _sensorType \in SensorTypes
  /\ _status = AHTXX_NO_ERROR
  /\ _rawData \in CrcFrames
  /\ call = [op |-> "AHTxx", force |-> FALSE]
  /\ ret = "void"
  /\ trace = <<>>
  /\ lastRefresh = NoRefresh

checkCRC8 ==
  /\ call' = [op |-> "_checkCRC8", force |-> FALSE]
  /\ ret' = _checkCRC8(_rawData, _sensorType)
  /\ trace' = <<>>
  /\ UNCHANGED <<_sensorType, _status, _rawData, lastRefresh>>

CrcSpec == CrcFramesInit /\ [][checkCRC8]_vars

\* C16: for the AHT2x, the integrity check passes exactly when frame[6] is
\* the CRC-8 (initial value 0xFF, polynomial 0x31, most significant bit first,
\* no final XOR; 0x92 for the two bytes 0xBE 0xEF) of frame[0..5]; it passes
\* on every frame whose trailer is that CRC and fails on every such frame
\* with one of the 48 bits of its six data bytes flipped and the trailer kept.
C16_CheckIsCrc8 ==
  (call.op = "_checkCRC8" /\ _sensorType = AHT2x_SENSOR)
    => /\ RefCrc8(<<190, 239>>) = 146
       /\ ret = (RefCrc8(DataBytes(_rawData)) = _rawData[6])
       /\ \A f \in CrcBaseFrames :
            /\ _rawData = f => ret = TRUE
            /\ \A k \in 0 .. 47 : _rawData = FlipBit(f, k) => ret = FALSE

\* the check failing on a frame whose last data bit was flipped
C16_Witness ==
  /\ call.op = "_checkCRC8"
  /\ _sensorType = AHT2x_SENSOR
  /\ \E f \in CrcBaseFrames : _rawData = FlipBit(f, 47)
  /\ ret = FALSE

---------------------------------------------------------------------------
(* C17 *)

\* the calls made on an object whose variant is never changed
FixedTypeNext ==
  \/ begin
  \/ readHumidity
  \/ readTemperature
  \/ setNormalMode
  \/ setCycleMode
  \/ setComandMode
  \/ softReset
  \/ getStatus

FixedTypeSpec == Init /\ [][FixedTypeNext]_vars

\* C17: with the variant held fixed, in every state reached by calls of which
\* at least one was a refresh, status Ok implies that the raw frame is the
\* whole byte sequence that the bulk read of the most recent refresh
\* delivered (6 bytes for AHT1x, 7 for AHT2x), that the busy bit of frame[0]
\* is clear, and for AHT2x that the CRC-8 of frame[0..5] equals frame[6].
C17_OkMeansWholeFrame ==
  (lastRefresh.done /\ _status = AHTXX_NO_ERROR)
    => LET n == IF _sensorType = AHT1x_SENSOR THEN 6 ELSE 7
       IN /\ Len(lastRefresh.frame) = n
          /\ \A i \in 0 .. n - 1 : _rawData[i] = lastRefresh.frame[i + 1]
          /\ ~BusyBit(_rawData[0])
          /\ _sensorType = AHT2x_SENSOR
               => RefCrc8(DataBytes(_rawData)) = _rawData[6]

\* status Ok on an AHT2x after a refresh followed by a softReset that failed
C17_Witness ==
  /\ lastRefresh.done
  /\ _status = AHTXX_NO_ERROR
  /\ _sensorType = AHT2x_SENSOR
  /\ call.op = "softReset"
  /\ ret = FALSE
  /\ \A j \in 1 .. 5 : _rawData[j] = Payload(2)[j]

---------------------------------------------------------------------------
(* C18 *)

\* C18: a byte among _rawData[1..6] changes only in a refresh whose bulk read
\* made exactly the expected number n of bytes available (6 or 7), and
\* bytes 1..n-1 then all hold the bytes delivered; a refresh that ends with
\* AckError or DataError leaves bytes 1..6 unchanged; byte 0 changes only in
\* a refresh, and without a complete bulk read only to the byte that the
\* 1-byte status read delivered.
C18_WhoWritesTheFrame ==
  [][/\ (\E i \in 1 .. 6 : _rawData'[i] # _rawData[i])
          => /\ Refresh'
             /\ BulkReadFull(trace', _sensorType)
     /\ (Refresh' /\ BulkReadFull(trace', _sensorType))
          => \A i \in 1 .. (IF _sensorType = AHT1x_SENSOR THEN 5 ELSE 6) :
               _rawData'[i] = Requests(trace')[2].data[i + 1]
     /\ (Refresh' /\ _status' \in {AHTXX_ACK_ERROR, AHTXX_DATA_ERROR})
          => \A i \in 1 .. 6 : _rawData'[i] = _rawData[i]
     /\ _rawData'[0] # _rawData[0]
          => /\ Refresh'
             /\ Len(Requests(trace')) >= 1
             /\ Requests(trace')[1].avail = 1
             /\ ~BulkReadFull(trace', _sensorType)
                  => _rawData'[0] = Requests(trace')[1].data[1]]_vars

\* a refresh that ended with DataError at the bulk read: byte 0 is the busy
\* status byte just read, bytes 1..5 are still those of an earlier frame
C18_Witness ==
  /\ Refresh
  /\ BulkReadShort(trace, _sensorType)
  /\ _status = AHTXX_DATA_ERROR
  /\ _rawData[0] = 152
  /\ \A j \in 1 .. 5 : _rawData[j] = Payload(2)[j]

---------------------------------------------------------------------------
(* C19 *)

\* the last call was a begin or a softReset all of whose writes were
\* acknowledged and whose status-register read delivered one byte
CalibrationByteRead ==
  /\ call.op \in {"begin", "softReset"}
  /\ ~SomeWriteFailed(trace)
  /\ Len(Requests(trace)) = 1
  /\ Requests(trace)[1].avail = 1

\* C19: when the mode-set was acknowledged and the 1-byte read of the status
\* register succeeded, begin and softReset return false on the status byte
\* 0xFF, although bit 0x08 is set in it, and on every other status byte
\* return true exactly when bit 3 is set.
C19_AllOnesIsAnError ==
  CalibrationByteRead
    => LET byte == Requests(trace)[1].data[1]
       IN IF byte = 255
          THEN ret = FALSE /\ (byte \div 8) % 2 = 1
          ELSE ret = ((byte \div 8) % 2 = 1)

\* a softReset that was acknowledged throughout, read 0xFF and returned false
C19_Witness ==
  /\ CalibrationByteRead
  /\ call.op = "softReset"
  /\ Requests(trace)[1].data = <<255>>
  /\ ret = FALSE

=============================================================================
